---- MODULE Spec2Model ----
(***************************************************************************)
(* Running Records Analysis: the result normalization and best-selection   *)
(* engine of best_results_3plus_or_realtiming_race.py,                     *)
(* Single_person_results_w_top_results.py and flask_app.py.                *)
(*                                                                         *)
(* Text is a sequence of characters, each character a one-element string   *)
(* token.  Hebrew letters are written by their Unicode names ("HET",       *)
(* "TSADI", ...), the ASCII double quote as "DQUOTE".                      *)
(***************************************************************************)
EXTENDS Integers, Sequences, FiniteSets, TLC

VARIABLES
    pc,             \* position of the operation under study
    value,          \* normalize_distance, normalize_year: the raw value passed in
    result,         \* normalize_distance (aggregator), normalize_year: what the call gives
    single_result,  \* normalize_distance (single participant): the value returned
    row,            \* time resolver: the row passed in (column -> cell)
    best_time,      \* choose_best_time_string(row)
    race_time,      \* aggregator: pd.to_timedelta(best_time, errors="coerce")
    single_race_time, \* single participant: parse_time(row)
    single_response, \* fetch_and_process_results: what the results site answered
    single_returned, \* fetch_and_process_results: (best_rows, df) returned, or the exception raised
    names_list,     \* self.names_list
    category,       \* best_results_for_category(category)
    looked_up,      \* the participants looked up so far, each with whether the site had a row of the category
    response,       \* what the results site answered to the last lookup
    best_results,   \* best_results of best_results_for_category
    returned,       \* best_results_for_category: the value returned, or the exception raised
    excel_dir,      \* the files of the directory "excel": name -> content
    now,            \* datetime.now(), in seconds
    requests,       \* the POST requests to flask_app.index, in order of arrival
    url,            \* self.url, by the provider marker it holds
    page,           \* the roster table of the event page
    participants_table_df, \* self.participants_table_df
    criteria,       \* the arguments of get_filtered_names
    kept_rows       \* the roster positions get_filtered_names kept, or the exception raised

vars == <<pc, value, result, single_result, row, best_time, race_time, single_race_time,
          single_response, single_returned,
          names_list, category, looked_up, response, best_results, returned,
          excel_dir, now, requests,
          url, page, participants_table_df, criteria, kept_rows>>

normalize_vars == <<value, result, single_result>>
time_vars == <<row, best_time, race_time, single_race_time>>
single_vars == <<single_response, single_returned>>
agg_vars == <<names_list, category, looked_up, response, best_results, returned>>
web_vars == <<excel_dir, now, requests>>
filter_vars == <<url, page, participants_table_df, criteria, kept_rows>>

(***************************************************************************)
(* Bounds of the model.                                                    *)
(***************************************************************************)
MaxLabelLen == 3
MaxRows == 3
MaxNames == 2
MaxLookupRows == 2
MaxClock == 2
MaxRequests == 2
MaxTableRows == 1
MaxRoster == 2
MaxYearDigits == 3

(***************************************************************************)
(* Python values and str().                                                *)
(***************************************************************************)
\* Python None, float("nan") and pandas.NaT
None == [kind |-> "None"]
NaN == [kind |-> "nan"]
NaT == [kind |-> "NaT"]

\* a Python str holding the characters s
PyStr(s) == [kind |-> "str", s |-> s]

\* a pandas DataFrame with the rows given
DataFrame(rows) == [kind |-> "DataFrame", rows |-> rows]

\* a Python int
PyInt(n) == [kind |-> "int", n |-> n]

\* pd.isna on a scalar
isna(v) == v.kind \in {"None", "nan", "NaT"}

Digit(d) == CASE d = 0 -> "0" [] d = 1 -> "1" [] d = 2 -> "2" [] d = 3 -> "3"
              [] d = 4 -> "4" [] d = 5 -> "5" [] d = 6 -> "6" [] d = 7 -> "7"
              [] d = 8 -> "8" [] d = 9 -> "9"

RECURSIVE Decimal(_)
\* the decimal digits of a natural number
Decimal(n) == IF n < 10 THEN <<Digit(n)>> ELSE Append(Decimal(n \div 10), Digit(n % 10))

\* Python str(v), as characters
str(v) == CASE v.kind = "str" -> v.s
            [] v.kind = "int" -> Decimal(v.n)
            [] v.kind = "None" -> <<"N", "o", "n", "e">>
            [] v.kind = "nan" -> <<"n", "a", "n">>
            [] v.kind = "NaT" -> <<"N", "a", "T">>

\* the characters str.strip() removes
Whitespace == {" ", "TAB", "NBSP"}

RECURSIVE lstrip(_)
lstrip(s) == IF s # <<>> /\ Head(s) \in Whitespace THEN lstrip(Tail(s)) ELSE s

RECURSIVE rstrip(_)
rstrip(s) == IF s # <<>> /\ s[Len(s)] \in Whitespace
             THEN rstrip(SubSeq(s, 1, Len(s) - 1)) ELSE s

\* Python s.strip()
strip(s) == rstrip(lstrip(s))

\* Python: sub in s
contains(s, sub) ==
    \E i \in 1..(Len(s) - Len(sub) + 1) : SubSeq(s, i, i + Len(sub) - 1) = sub

(***************************************************************************)
(* Category Normalizer.                                                    *)
(***************************************************************************)
\* the canonical categories, as the Python strings the normalizers return
K42 == PyStr(<<"4", "2", "K">>)
K21 == PyStr(<<"2", "1", "K">>)
K15 == PyStr(<<"1", "5", "K">>)
K10 == PyStr(<<"1", "0", "K">>)
K5 == PyStr(<<"5", "K">>)

\* the labels of the alias lists, character by character
L_10_KM_Q == <<"1", "0", " ", "QOF", "DQUOTE", "MEM">>
L_10KM_Q == <<"1", "0", "QOF", "DQUOTE", "MEM">>
L_9800 == <<"9", "8", "0", "0">>
L_10000 == <<"1", "0", "0", "0", "0">>
L_10_KM == <<"1", "0", " ", "QOF", "MEM">>
L_21097 == <<"2", "1", "0", "9", "7">>
L_21000 == <<"2", "1", "0", "0", "0">>
L_21K == <<"2", "1", "K">>
L_21k == <<"2", "1", "k">>
L_HALF == <<"HET", "TSADI", "YOD", " ", "MEM", "RESH", "TAV", "VAV", "FINAL_NUN">>
L_42195 == <<"4", "2", "1", "9", "5">>
L_42K == <<"4", "2", "K">>
L_42k == <<"4", "2", "k">>

\* the alias lists of best_race_results_per_participant.normalize_distance
Aliases10K == {L_10_KM_Q, L_10KM_Q, L_9800, L_10000, L_10_KM}
Aliases21K == {L_21097, <<"2", "1", " ", "QOF", "DQUOTE", "MEM">>, L_21000, L_21K, L_21k,
               L_HALF, L_HALF \o <<" ", "TAV", "HET", "RESH", "VAV", "TAV", "YOD">>,
               <<"HET", "TSADI", "YOD", "-", "MEM", "RESH", "TAV", "VAV", "FINAL_NUN">>,
               <<"HET", "TSADI", "YOD", "_", "MEM", "RESH", "TAV", "VAV", "FINAL_NUN">>}
Aliases42K == {L_42195, L_42K, L_42k}

\* the alias lists of the normalize_distance nested in fetch_and_process_results
SingleAliases10K == {L_10_KM_Q, L_10KM_Q, L_9800, L_10000, L_10_KM}
SingleAliases21K == {L_21097, L_21000, L_21K, L_21k}
SingleAliases42K == {L_42195, L_42K, L_42k}

\* 15K is tested only when "2" is absent, as 5K is
normalize_distance_guard15(v) ==
    IF isna(v) \/ strip(str(v)) = <<>> THEN NaN
    ELSE LET s == strip(str(v)) IN
         IF s \in Aliases10K THEN K10
         ELSE IF s \in Aliases21K THEN K21
         ELSE IF s \in Aliases42K THEN K42
         ELSE IF contains(s, <<"1", "5">>) /\ ~contains(s, <<"2">>) THEN K15
         ELSE IF contains(s, <<"5">>) /\ ~contains(s, <<"2">>) THEN K5
         ELSE NaN

\* a label that matches nothing is returned as it is
normalize_distance_passthrough(v) ==
    IF isna(v) \/ strip(str(v)) = <<>> THEN NaN
    ELSE LET s == strip(str(v)) IN
         IF s \in Aliases10K THEN K10
         ELSE IF s \in Aliases21K THEN K21
         ELSE IF s \in Aliases42K THEN K42
         ELSE IF contains(s, <<"1", "5">>) THEN K15
         ELSE IF contains(s, <<"5">>) /\ ~contains(s, <<"2">>) THEN K5
         ELSE PyStr(s)

\* 5K is given to every label with a "5", with a "2" or without
normalize_distance_no_guard(v) ==
    IF isna(v) \/ strip(str(v)) = <<>> THEN NaN
    ELSE LET s == strip(str(v)) IN
         IF s \in Aliases10K THEN K10
         ELSE IF s \in Aliases21K THEN K21
         ELSE IF s \in Aliases42K THEN K42
         ELSE IF contains(s, <<"1", "5">>) THEN K15
         ELSE IF contains(s, <<"5">>) THEN K5
         ELSE NaN

\* best_race_results_per_participant.normalize_distance
normalize_distance(v) ==
    IF isna(v) \/ strip(str(v)) = <<>> THEN NaN
    ELSE LET s == strip(str(v)) IN
         IF s \in Aliases10K THEN K10
         ELSE IF s \in Aliases21K THEN K21
         ELSE IF s \in Aliases42K THEN K42
         ELSE IF contains(s, <<"1", "5">>) THEN K15
         ELSE IF contains(s, <<"5">>) /\ ~contains(s, <<"2">>) THEN K5
         ELSE NaN

\* fetch_and_process_results.normalize_distance
single_normalize_distance(v) ==
    IF isna(v) \/ strip(str(v)) = <<>> THEN NaN
    ELSE LET s == strip(str(v)) IN
         IF s \in SingleAliases10K THEN K10
         ELSE IF s \in SingleAliases21K THEN K21
         ELSE IF s \in SingleAliases42K THEN K42
         ELSE IF contains(s, <<"1", "5">>) THEN K15
         ELSE IF contains(s, <<"5">>) /\ ~contains(s, <<"2">>) THEN K5
         ELSE NaN

(***************************************************************************)
(* Inputs of the normalizer: every text over LabelChars up to MaxLabelLen,  *)
(* the alias labels bare and padded with blanks, numbers, None and NaN.    *)
(***************************************************************************)
LabelChars == {"1", "2", "5", "K", " "}

SeqsUpTo(S, n) == UNION {[1..k -> S] : k \in 0..n}

AliasLabels == Aliases10K \cup Aliases21K \cup Aliases42K

LabelTexts ==
    SeqsUpTo(LabelChars, MaxLabelLen)
    \cup AliasLabels
    \cup {<<" ">> \o a \o <<"TAB">> : a \in AliasLabels}
    \cup {<<"1", "5", " ", "QOF", "DQUOTE", "MEM">>, <<"5", " ", "QOF", "DQUOTE", "MEM">>,
          <<"2", "5", " ", "QOF", "DQUOTE", "MEM">>, <<"1", "0", "K">>}

LabelNumbers == {0, 5, 15, 25, 215, 9800, 10000, 21097, 42195}

LabelValues ==
    {PyStr(s) : s \in LabelTexts} \cup {PyInt(n) : n \in LabelNumbers} \cup {None, NaN}

Unset == [kind |-> "unset"]

\* the variables of the operations that are not under study
NormalizeIdle == value = Unset /\ result = Unset /\ single_result = Unset
TimeIdle == row = Unset /\ best_time = Unset /\ race_time = Unset /\ single_race_time = Unset
SingleIdle == single_response = Unset /\ single_returned = Unset
WebIdle == excel_dir = Unset /\ now = Unset /\ requests = Unset
FilterIdle ==
    /\ url = Unset /\ page = Unset /\ participants_table_df = Unset
    /\ criteria = Unset /\ kept_rows = Unset
AggIdle ==
    /\ names_list = Unset /\ category = Unset /\ looked_up = Unset
    /\ response = Unset /\ best_results = Unset /\ returned = Unset

NormalizeInit ==
    /\ pc = "normalize"
    /\ value \in LabelValues
    /\ result = Unset
    /\ single_result = Unset
    /\ TimeIdle
    /\ SingleIdle
    /\ AggIdle
    /\ WebIdle /\ FilterIdle

\* one call of each normalizer on the same raw label
Normalize ==
    /\ pc = "normalize"
    /\ result' = normalize_distance(value)
    /\ single_result' = single_normalize_distance(value)
    /\ pc' = "normalized"
    /\ UNCHANGED <<value, time_vars, single_vars, agg_vars, web_vars, filter_vars>>

NormalizeNext == Normalize

SpecNormalize == NormalizeInit /\ [][NormalizeNext]_vars

(***************************************************************************)
(* Time Resolver.                                                          *)
(***************************************************************************)
\* column names of the scraped tables
COL_DISTANCE == "miktse"
COL_PERSONAL == "zman_ishi"
COL_RESULT == "totsaa"

\* a duration, kept at second resolution
Timedelta(n) == [kind |-> "timedelta", seconds |-> n]

Digits == {"0", "1", "2", "3", "4", "5", "6", "7", "8", "9"}

DigitValue(c) == CASE c = "0" -> 0 [] c = "1" -> 1 [] c = "2" -> 2 [] c = "3" -> 3
                   [] c = "4" -> 4 [] c = "5" -> 5 [] c = "6" -> 6 [] c = "7" -> 7
                   [] c = "8" -> 8 [] c = "9" -> 9

RECURSIVE int(_)
\* Python int(s) on a run of digits
int(s) == IF s = <<>> THEN 0 ELSE 10 * int(SubSeq(s, 1, Len(s) - 1)) + DigitValue(s[Len(s)])

IsDigits(s) == s # <<>> /\ \A i \in 1..Len(s) : s[i] \in Digits

\* the text HH:MM:SS
IsClock(s) ==
    /\ Len(s) = 8
    /\ s[3] = ":" /\ s[6] = ":"
    /\ \A i \in {1, 2, 4, 5, 7, 8} : s[i] \in Digits

ClockSeconds(s) ==
    3600 * int(SubSeq(s, 1, 2)) + 60 * int(SubSeq(s, 4, 5)) + int(SubSeq(s, 7, 8))

\* the texts pandas reads as NaT
nat_strings == {<<"N", "a", "T">>, <<"n", "a", "t">>, <<"N", "A", "T">>,
                <<"n", "a", "n">>, <<"N", "a", "N">>, <<"N", "A", "N">>}

\* pd.to_timedelta on one value, a failed parse giving NaT (errors="coerce" in the
\* aggregator, the except clause of parse_time in the single-participant path).
\* The texts of the model are empty, a NaT text, HH:MM:SS, a run of digits
\* (nanoseconds) or text pandas cannot parse.
to_timedelta(v) ==
    CASE isna(v) -> NaT
      [] v.kind = "int" -> Timedelta(v.n \div 1000000000)
      [] v.kind = "str" ->
            IF v.s = <<>> \/ v.s \in nat_strings THEN NaT
            ELSE IF IsClock(v.s) THEN Timedelta(ClockSeconds(v.s))
            ELSE IF IsDigits(v.s) THEN Timedelta(int(v.s) \div 1000000000)
            ELSE NaT

\* row.get(col, "")
get(r, col) == IF col \in DOMAIN r THEN r[col] ELSE PyStr(<<>>)

T_ZERO == <<"0", "0", ":", "0", "0", ":", "0", "0">>

\* the null-time list of choose_best_time_string
NullTimes == {T_ZERO, <<"0">>, <<>>, <<"N", "a", "T">>, <<"N", "o", "n", "e">>}

\* the null-time list without the texts "NaT" and "None"
NullTimesNoText == {T_ZERO, <<"0">>, <<>>}

RECURSIVE choose_from(_, _, _)
\* the loop of choose_best_time_string over the columns cols, with null list nulls
choose_from(r, cols, nulls) ==
    IF cols = <<>> THEN PyStr(<<>>)
    ELSE LET val == strip(str(get(r, Head(cols)))) IN
         IF val \notin nulls THEN PyStr(val) ELSE choose_from(r, Tail(cols), nulls)

\* "NaT" and "None" are taken for times
choose_best_time_string_no_text(r) == choose_from(r, <<COL_PERSONAL, COL_RESULT>>, NullTimesNoText)

\* best_race_results_per_participant.choose_best_time_string
choose_best_time_string(r) == choose_from(r, <<COL_PERSONAL, COL_RESULT>>, NullTimes)

\* the list parse_time tests the personal time against
SingleNullTimes == {PyStr(T_ZERO), PyStr(<<"0">>), PyStr(<<>>), None, NaN}

\* fetch_and_process_results.parse_time; a missing column raises KeyError
\* inside the try block
parse_time(r) ==
    IF COL_PERSONAL \notin DOMAIN r THEN NaT
    ELSE IF r[COL_PERSONAL] \in SingleNullTimes
         THEN IF COL_RESULT \notin DOMAIN r THEN NaT ELSE to_timedelta(r[COL_RESULT])
         ELSE to_timedelta(r[COL_PERSONAL])

(***************************************************************************)
(* Inputs of the time resolver: a row with each time column absent or      *)
(* holding one of TimeCells.                                               *)
(***************************************************************************)
T_0040 == <<"0", "0", ":", "4", "0", ":", "0", "0">>
T_0041 == <<"0", "0", ":", "4", "1", ":", "0", "0">>

TimeCells ==
    {PyStr(s) : s \in {T_0040, T_0041, T_ZERO, <<"0">>, <<>>, <<"N", "a", "T">>,
                       <<"N", "o", "n", "e">>, <<"n", "a", "n">>, <<"D", "N", "F">>, <<" ">>,
                       <<" ">> \o T_0040 \o <<" ">>, T_ZERO \o <<" ">>,
                       <<"TAB", "N", "a", "T">>}}
    \cup {None, NaN, NaT, PyInt(0)}

\* the rows with the columns cols, each cell one of cells
RowsOver(cols, cells) == UNION {[present -> cells] : present \in SUBSET cols}

TimeRows == RowsOver({COL_PERSONAL, COL_RESULT}, TimeCells)

TimeInit ==
    /\ pc = "resolve"
    /\ row \in TimeRows
    /\ best_time = Unset
    /\ race_time = Unset
    /\ single_race_time = Unset
    /\ NormalizeIdle
    /\ SingleIdle
    /\ AggIdle
    /\ WebIdle /\ FilterIdle

\* the time resolvers of both paths on the same row
ResolveTime ==
    /\ pc = "resolve"
    /\ best_time' = choose_best_time_string(row)
    /\ race_time' = to_timedelta(choose_best_time_string(row))
    /\ single_race_time' = parse_time(row)
    /\ pc' = "resolved"
    /\ UNCHANGED <<row, normalize_vars, single_vars, agg_vars, web_vars, filter_vars>>

TimeNext == ResolveTime

SpecTime == TimeInit /\ [][TimeNext]_vars

(***************************************************************************)
(* Per-Participant Best Selector: fetch_and_process_results.               *)
(***************************************************************************)
BEST_RESULT == "Best Result"

\* a row of a DataFrame built from the scraped cells: the cells, the 0-based
\* index label, and the two derived columns
single_frame_row(r, i) ==
    [index |-> i - 1,
     miktse |-> r[COL_DISTANCE], zman_ishi |-> r[COL_PERSONAL], totsaa |-> r[COL_RESULT],
     normalized_distance |-> single_normalize_distance(r[COL_DISTANCE]),
     race_time |-> parse_time(r)]

\* df after lines 69-101
single_frame(rows) == [i \in 1..Len(rows) |-> single_frame_row(rows[i], i)]

\* every row is a candidate, whatever its normalized_distance
for_best_every_row(df) == 1..Len(df)

\* df_for_best: the positions whose normalized_distance is not NaN (the list
\* ["30000", "7000"] holds no value a normalizer returns)
for_best(df) == {i \in 1..Len(df) : ~isna(df[i].normalized_distance)}

\* the positions of one group of groupby("normalized_distance")
group(df, among, cat) == {i \in among : df[i].normalized_distance = cat}

\* the group keys that occur
group_keys(df, among) == {df[i].normalized_distance : i \in among}

\* the last of the rows of least time is taken
idxmin_last(df, g) ==
    LET timed == {i \in g : ~isna(df[i].race_time)}
        least == {i \in timed : \A j \in timed : df[i].race_time.seconds <= df[j].race_time.seconds}
    IN IF timed = {} THEN NaN
       ELSE PyInt(CHOOSE i \in least : \A j \in least : i >= j)

\* idxmin over the race_time of the positions in g: NaT is skipped, the first of
\* the least is taken; NaN stands for the group without any time
idxmin(df, g) ==
    LET timed == {i \in g : ~isna(df[i].race_time)}
        least == {i \in timed : \A j \in timed : df[i].race_time.seconds <= df[j].race_time.seconds}
    IN IF timed = {} THEN NaN
       ELSE PyInt(CHOOSE i \in least : \A j \in least : i <= j)

\* order of line 115
order == <<K42, K21, K15, K10, K5>>

\* order.index(x) if x in order else len(order)
order_key(x) ==
    IF \E k \in 1..Len(order) : order[k] = x
    THEN (CHOOSE k \in 1..Len(order) : order[k] = x) - 1
    ELSE Len(order)

RECURSIVE rows_in_table_order(_, _)
\* the rows are left in the order of the table
rows_in_table_order(df, among) ==
    IF among = {} THEN <<>>
    ELSE LET i == CHOOSE i \in among : \A j \in among : i <= j
         IN <<i>> \o rows_in_table_order(df, among \ {i})

RECURSIVE sort_by_order_key(_, _)
\* sort_values("order_key") of rows whose keys differ: least key first
sort_by_order_key(df, among) ==
    IF among = {} THEN <<>>
    ELSE LET i == CHOOSE i \in among :
                      \A j \in among : order_key(df[i].normalized_distance)
                                         <= order_key(df[j].normalized_distance)
         IN <<i>> \o sort_by_order_key(df, among \ {i})

\* a row of best_rows: the row of df at position i, tagged
best_row(df, i) ==
    [index |-> df[i].index,
     miktse |-> df[i].miktse, zman_ishi |-> df[i].zman_ishi, totsaa |-> df[i].totsaa,
     normalized_distance |-> df[i].normalized_distance,
     race_time |-> df[i].race_time,
     heara |-> BEST_RESULT]

\* lines 103-119 on df: one idxmin per group; df.loc raises KeyError when a
\* group gave NaN (pandas 1.3 raises ValueError inside idxmin already)
best_rows_of(df) ==
    LET among == for_best(df)
        best_indices == {idxmin(df, group(df, among, k)) : k \in group_keys(df, among)}
    IN IF NaN \in best_indices THEN [raised |-> "KeyError"]
       ELSE LET picked == {b.n : b \in best_indices}
                sorted == sort_by_order_key(df, picked)
            IN [raised |-> "", rows |-> [k \in 1..Len(sorted) |-> best_row(df, sorted[k])]]

\* fetch_and_process_results(first_name, last_name) on the response the site gave
fetch_and_process_results(resp) ==
    IF resp.kind = "http_error" THEN [raised |-> "HTTPError"]
    ELSE IF resp.kind = "no_table" THEN [raised |-> "ValueError"]
    ELSE IF resp.rows = <<>> THEN [raised |-> "ValueError"]
    ELSE LET df == single_frame(resp.rows)
             best == best_rows_of(df)
         IN IF best.raised # "" THEN [raised |-> best.raised]
            ELSE [raised |-> "", best_rows |-> best.rows, df |-> df]

(***************************************************************************)
(* Inputs of the selector: what the results site answers.  The cells of a  *)
(* table are texts without surrounding blanks (get_text(strip=True)).      *)
(***************************************************************************)
ScrapedRow(label, personal, res) ==
    [c \in {COL_DISTANCE, COL_PERSONAL, COL_RESULT} |->
        IF c = COL_DISTANCE THEN PyStr(label)
        ELSE IF c = COL_PERSONAL THEN PyStr(personal) ELSE PyStr(res)]

\* (personal time, result) of a row
TimePairs == {<<T_0040, T_0041>>, <<T_0041, <<>>>>, <<T_ZERO, T_0040>>,
              <<T_ZERO, T_ZERO>>, <<<<>>, <<>>>>}

SingleLabels == {L_10000, L_42K, <<"5">>, L_HALF}

SingleRows == {ScrapedRow(l, p[1], p[2]) : l \in SingleLabels, p \in TimePairs}

Table(rows) == [kind |-> "table", rows |-> rows]

SingleResponses ==
    {[kind |-> "http_error"], [kind |-> "no_table"]}
    \cup {Table(rows) : rows \in SeqsUpTo(SingleRows, MaxRows)}

SingleInit ==
    /\ pc = "single"
    /\ single_response \in SingleResponses
    /\ single_returned = Unset
    /\ NormalizeIdle
    /\ TimeIdle
    /\ AggIdle
    /\ WebIdle /\ FilterIdle

\* one call of fetch_and_process_results; the Excel file it writes holds the
\* two tables it returns
FetchAndProcess ==
    /\ pc = "single"
    /\ single_returned' = fetch_and_process_results(single_response)
    /\ pc' = "single_done"
    /\ UNCHANGED <<single_response, normalize_vars, time_vars, agg_vars, web_vars, filter_vars>>

SingleNext == FetchAndProcess

SpecSingle == SingleInit /\ [][SingleNext]_vars

(***************************************************************************)
(* Cross-Participant Aggregator: fetch_best_result and                     *)
(* best_results_for_category.                                              *)
(***************************************************************************)
\* a row of the DataFrame fetch_best_result builds (lines 394-401)
frame_row(r, i) ==
    [index |-> i - 1,
     miktse |-> r[COL_DISTANCE], zman_ishi |-> r[COL_PERSONAL], totsaa |-> r[COL_RESULT],
     normalized_distance |-> normalize_distance(r[COL_DISTANCE]),
     totsaa_meitavit |-> choose_best_time_string(r),
     race_time |-> to_timedelta(choose_best_time_string(r))]

frame(rows) == [i \in 1..Len(rows) |-> frame_row(rows[i], i)]

\* the rows of every category are taken
of_category_all(df, cat) == 1..Len(df)

\* df_cat: the positions of the rows of the category
of_category(df, cat) == {i \in 1..Len(df) : df[i].normalized_distance = cat}

\* best_row of lines 411-414
named_best_row(r, name) ==
    [index |-> r.index, miktse |-> r.miktse, zman_ishi |-> r.zman_ishi, totsaa |-> r.totsaa,
     normalized_distance |-> r.normalized_distance,
     totsaa_meitavit |-> r.totsaa_meitavit, race_time |-> r.race_time,
     shem_prati |-> name.first_name, shem_mishpaha |-> name.last_name,
     heara |-> BEST_RESULT]

\* fetch_best_result(first_name, last_name, category) on the response the site
\* gave: None, the best row, or the exception that escapes (idxmin of a df_cat
\* without any time gives NaN, and df_cat.loc[NaN] raises KeyError)
fetch_best_result(resp, name, cat) ==
    IF resp.kind \in {"timeout", "request_error", "no_table"} THEN [raised |-> "", row |-> None]
    ELSE IF resp.rows = <<>> THEN [raised |-> "", row |-> None]
    ELSE LET df == frame(resp.rows)
             df_cat == of_category(df, cat)
         IN IF df_cat = {} THEN [raised |-> "", row |-> None]
            ELSE LET best_idx == idxmin(df, df_cat)
                 IN IF best_idx = NaN THEN [raised |-> "KeyError"]
                    ELSE [raised |-> "", row |-> named_best_row(df[best_idx.n], name)]

\* a row of df_best: the collected row under its index after reset_index, with
\* race_time parsed again (line 434)
aggregate_row(r, i) ==
    [index |-> i - 1, miktse |-> r.miktse, zman_ishi |-> r.zman_ishi, totsaa |-> r.totsaa,
     normalized_distance |-> r.normalized_distance,
     totsaa_meitavit |-> r.totsaa_meitavit, race_time |-> to_timedelta(r.totsaa_meitavit),
     shem_prati |-> r.shem_prati, shem_mishpaha |-> r.shem_mishpaha, heara |-> r.heara]

orderings(n) == {p \in [1..n -> 1..n] : \A i, j \in 1..n : i # j => p[i] # p[j]}

\* the orders sort_values(by="race_time", ascending=True) can give: the default
\* kind is quicksort, which numpy keeps in collection order among equal keys only
\* for runs of at most 16 rows, so rows of equal race_time come in any order;
\* the NaT rows are appended after it, in collection order
sort_values_orders(df) ==
    {p \in orderings(Len(df)) :
        \A a, b \in 1..Len(df) : a < b =>
            LET x == df[p[a]].race_time
                y == df[p[b]].race_time
            IN /\ isna(x) => isna(y)
               /\ (isna(x) /\ isna(y)) => p[a] < p[b]
               /\ (~isna(x) /\ ~isna(y)) => x.seconds <= y.seconds}

\* lines 430-435 on the collected rows: the tables df_best can be
sorted_frames(collected) ==
    LET df == [i \in 1..Len(collected) |-> aggregate_row(collected[i], i)]
    IN {[k \in 1..Len(df) |-> df[p[k]]] : p \in sort_values_orders(df)}

(***************************************************************************)
(* Inputs of the aggregator: the filtered names and what the results site  *)
(* answers for each.                                                       *)
(***************************************************************************)
\* the k-th participant of the roster
Name(k) == [first_name |-> <<"F", Digit(k)>>, last_name |-> <<"L", Digit(k)>>]

NamesLists == {[k \in 1..n |-> Name(k)] : n \in 0..MaxNames}

AggTimePairs == {<<T_0040, T_0041>>, <<T_ZERO, T_0041>>, <<T_ZERO, <<"N", "a", "T">>>>}

\* rows of 10 km with each pair of times, and a half-marathon row
AggRows ==
    {ScrapedRow(L_10000, p[1], p[2]) : p \in AggTimePairs}
    \cup {ScrapedRow(L_HALF, T_0040, T_0041)}

AggResponses ==
    {[kind |-> "timeout"], [kind |-> "request_error"], [kind |-> "no_table"]}
    \cup {Table(rows) : rows \in SeqsUpTo(AggRows, MaxLookupRows)}

TargetCategories == {K10, K21}

\* the lookup succeeded with a row in the target category
HasTargetRow(resp, cat) ==
    /\ resp.kind = "table"
    /\ \E i \in 1..Len(resp.rows) :
          normalize_distance(resp.rows[i][COL_DISTANCE]) = cat

AggInit ==
    /\ pc = "agg_loop"
    /\ names_list \in NamesLists
    /\ category \in TargetCategories
    /\ looked_up = <<>>
    /\ response = Unset
    /\ best_results = <<>>
    /\ returned = Unset
    /\ NormalizeIdle
    /\ TimeIdle
    /\ SingleIdle
    /\ WebIdle /\ FilterIdle

\* one pass of the loop of best_results_for_category: the lookup of the next
\* participant; an exception of fetch_best_result ends the call
FetchBestResult ==
    /\ pc = "agg_loop"
    /\ Len(looked_up) < Len(names_list)
    /\ \E answer \in AggResponses :
          LET name == names_list[Len(looked_up) + 1]
              best == fetch_best_result(answer, name, category)
          IN /\ response' = answer
             /\ looked_up' = Append(looked_up, [name |-> name,
                                                has_target_row |-> HasTargetRow(answer, category)])
             /\ IF best.raised # ""
                THEN /\ pc' = "agg_raised"
                     /\ returned' = [raised |-> best.raised]
                     /\ UNCHANGED best_results
                ELSE /\ pc' = "agg_loop"
                     /\ best_results' = IF best.row = None THEN best_results
                                        ELSE Append(best_results, best.row)
                     /\ UNCHANGED returned
    /\ UNCHANGED <<names_list, category, normalize_vars, time_vars, single_vars, web_vars, filter_vars>>

\* lines 426-456 with excel_path None: nothing collected returns None, else the
\* sorted table
ReturnBestResults ==
    /\ pc = "agg_loop"
    /\ Len(looked_up) = Len(names_list)
    /\ IF best_results = <<>>
       THEN returned' = [raised |-> "", value |-> None]
       ELSE \E df_best \in sorted_frames(best_results) :
                returned' = [raised |-> "", value |-> DataFrame(df_best)]
    /\ pc' = "agg_done"
    /\ UNCHANGED <<names_list, category, looked_up, response, best_results,
                   normalize_vars, time_vars, single_vars, web_vars, filter_vars>>

AggNext == FetchBestResult \/ ReturnBestResults

SpecAggregate == AggInit /\ [][AggNext]_vars

\* both selectors: the single-participant call and the aggregator
SelectorsInit == SingleInit \/ AggInit
SelectorsNext == SingleNext \/ AggNext
SpecSelectors == SelectorsInit /\ [][SelectorsNext]_vars

(***************************************************************************)
(* Web layer: flask_app.index, with the file best_results_for_category     *)
(* writes when excel_path is set.                                          *)
(***************************************************************************)
\* the code point of a character of a file name
ord(c) == CASE c \in Digits -> 48 + DigitValue(c)
            [] c = "-" -> 45 [] c = "." -> 46
            [] c = "A" -> 65 [] c = "K" -> 75 [] c = "N" -> 78
            [] c = "_" -> 95
            [] c = "b" -> 98 [] c = "e" -> 101 [] c = "l" -> 108 [] c = "p" -> 112
            [] c = "q" -> 113 [] c = "r" -> 114 [] c = "s" -> 115 [] c = "t" -> 116
            [] c = "u" -> 117 [] c = "x" -> 120

RECURSIVE str_less(_, _)
\* Python a < b on strings
str_less(a, b) ==
    IF b = <<>> THEN FALSE
    ELSE IF a = <<>> THEN TRUE
    ELSE IF Head(a) # Head(b) THEN ord(Head(a)) < ord(Head(b))
    ELSE str_less(Tail(a), Tail(b))

\* datetime.now().strftime("%Y_%m_%d_%H_%M_%S"): a text of fixed width whose
\* order is the order of the seconds; the clock of the model has one digit
strftime(t) == <<Digit(t)>>

\* the age suffix of the form's default ages 40 and 49
age_suffix == <<"_", "4", "0", "-", "4", "9">>

\* output_file of line 451, without the directory
output_file(t, race_name, cat) ==
    strftime(t) \o <<"_">> \o race_name
        \o <<"_", "b", "e", "s", "t", "_", "r", "e", "s", "u", "l", "t", "s", "_">>
        \o cat.s \o age_suffix \o <<".", "x", "l", "s", "x">>

endswith(s, suffix) ==
    Len(s) >= Len(suffix) /\ SubSeq(s, Len(s) - Len(suffix) + 1, Len(s)) = suffix

\* the list comprehension of lines 82-87 (no file of the model starts with "~$")
matching_files(dir, race_name) ==
    {f \in DOMAIN dir : endswith(f, <<".", "x", "l", "s", "x">>) /\ contains(f, race_name)}

\* sorted(..., reverse=True)[0]
newest(files) == CHOOSE f \in files : \A g \in files : g = f \/ str_less(g, f)

\* what best_results_for_category can end with for request q: an exception,
\* None, or a table of 1..MaxTableRows rows
agg_outcomes(q) ==
    {[raised |-> "KeyError"], [raised |-> "", value |-> None]}
    \cup {[raised |-> "", value |-> DataFrame([k \in 1..n |-> [query |-> q, rank |-> k]])] :
            n \in 1..MaxTableRows}

RaceNames == {<<"p">>, <<"p", "q">>, <<"N", "A">>}

WebCategories == {K10, K21}

WebInit ==
    /\ pc = "web"
    /\ excel_dir = <<>>
    /\ now = 0
    /\ requests = <<>>
    /\ FilterIdle
    /\ NormalizeIdle
    /\ TimeIdle
    /\ SingleIdle
    /\ AggIdle

web_others == <<pc, normalize_vars, time_vars, single_vars, agg_vars, filter_vars>>

\* a second passes
Tick ==
    /\ pc = "web"
    /\ now < MaxClock
    /\ now' = now + 1
    /\ UNCHANGED <<excel_dir, requests, web_others>>

\* a POST arrives: lines 37-51
Post ==
    /\ pc = "web"
    /\ Len(requests) < MaxRequests
    /\ \E race_name \in RaceNames, cat \in WebCategories :
          requests' = Append(requests, [race_name |-> race_name, category |-> cat,
                                        at |-> "posted", aggregated |-> Unset,
                                        rendered |-> Unset])
    /\ UNCHANGED <<excel_dir, now, web_others>>

\* lines 54-78 of request q: scrape, filter, best_results_for_category, which
\* writes its table to the file named by the second it ends in; an exception
\* of any of the three is the response (500)
RunBestResults(q) ==
    /\ pc = "web"
    /\ requests[q].at = "posted"
    /\ \/ /\ requests' = [requests EXCEPT ![q].at = "responded",
                                          ![q].rendered = [kind |-> "error"]]
          /\ UNCHANGED excel_dir
       \/ \E outcome \in agg_outcomes(q) :
             IF outcome.raised # ""
             THEN /\ requests' = [requests EXCEPT ![q].at = "responded",
                                                  ![q].aggregated = outcome,
                                                  ![q].rendered = [kind |-> "error"]]
                  /\ UNCHANGED excel_dir
             ELSE /\ requests' = [requests EXCEPT ![q].at = "aggregated",
                                                  ![q].aggregated = outcome]
                  /\ excel_dir' =
                        IF outcome.value = None THEN excel_dir
                        ELSE LET f == output_file(now, requests[q].race_name, requests[q].category)
                             IN [g \in DOMAIN excel_dir \cup {f} |->
                                    IF g = f THEN [written_by |-> q, rows |-> outcome.value.rows]
                                    ELSE excel_dir[g]]
    /\ UNCHANGED <<now, web_others>>

\* lines 80-116 of request q: the newest matching file of the directory is
\* read and rendered; without one the request fails (500)
Render(q) ==
    /\ pc = "web"
    /\ requests[q].at = "aggregated"
    /\ LET excel_files == matching_files(excel_dir, requests[q].race_name)
       IN requests' =
             [requests EXCEPT
                 ![q].at = "responded",
                 ![q].rendered =
                     IF excel_files = {} THEN [kind |-> "error"]
                     ELSE [kind |-> "table",
                           download_link |-> newest(excel_files),
                           written_by |-> excel_dir[newest(excel_files)].written_by,
                           rows |-> excel_dir[newest(excel_files)].rows]]
    /\ UNCHANGED <<excel_dir, now, web_others>>

WebNext ==
    \/ Tick
    \/ Post
    \/ \E q \in 1..MaxRequests : q <= Len(requests) /\ RunBestResults(q)
    \/ \E q \in 1..MaxRequests : q <= Len(requests) /\ Render(q)

SpecWeb == WebInit /\ [][WebNext]_vars

(***************************************************************************)
(* Participant Filter: scrape_participants_table and get_filtered_names.   *)
(***************************************************************************)
\* the texts of the canonical categories and of the canonical genders
MALE == <<"m", "a", "l", "e">>
FEMALE == <<"f", "e", "m", "a", "l", "e">>

\* native gender tokens of the rosters
ZAYIN == <<"ZAYIN">>
NUN == <<"NUN">>
ZAKHAR == <<"ZAYIN", "KAF", "RESH">>
NEKEVA == <<"NUN", "QOF", "BET", "HE">>

RECURSIVE split(_, _)
\* Python s.split(sep) for a separator of one character
split(s, sep) ==
    IF \A i \in 1..Len(s) : s[i] # sep THEN <<s>>
    ELSE LET i == CHOOSE i \in 1..Len(s) : s[i] = sep /\ \A j \in 1..(i - 1) : s[j] # sep
         IN <<SubSeq(s, 1, i - 1)>> \o split(SubSeq(s, i + 1, Len(s)), sep)

\* Python int(text) succeeds: digits, blanks around them allowed (the texts of
\* the model carry no sign)
is_int_text(s) == IsDigits(strip(s))

\* the pivot is taken at 50
expand_year_pivot50(year) == IF year < 100 THEN (IF year > 50 THEN year + 1900 ELSE year + 2000) ELSE year

\* year += 1900 if year > 25 else 2000, for year < 100
expand_year(year) == IF year < 100 THEN (IF year > 25 THEN year + 1900 ELSE year + 2000) ELSE year

\* best_race_results_per_participant.normalize_year: the year, None, or the
\* exception raised
normalize_year(y) ==
    IF isna(y) THEN [raised |-> "", value |-> None]
    ELSE IF y.kind = "int" THEN [raised |-> "", value |-> y]
    ELSE IF y.kind = "float" THEN [raised |-> "", value |-> PyInt(y.tenths \div 10)]
    ELSE IF contains(y.s, <<"/">>)
         THEN LET parts == split(y.s, "/")
              IN IF Len(parts) < 3 THEN [raised |-> "IndexError"]
                 ELSE IF ~is_int_text(parts[3]) THEN [raised |-> "ValueError"]
                 ELSE [raised |-> "", value |-> PyInt(expand_year(int(strip(parts[3]))))]
    ELSE IF is_int_text(y.s) THEN [raised |-> "", value |-> PyInt(int(strip(y.s)))]
    ELSE [raised |-> "", value |-> None]

\* the markers the URL dispatch looks for; a URL of the model holds one
Providers == {"realtiming.co.il", "3plus.co.il", "modiin", "shvoong"}

\* Series.replace(mapping) on one gender cell, then .str.strip()
replace_gender(cell, male, female) ==
    IF cell = male THEN MALE ELSE IF cell = female THEN FEMALE ELSE strip(cell)

\* the gender column after scrape_participants_table: the realtiming and modiin
\* scrapers map their tokens, the 3plus scraper (3plus, shvoong) maps nothing
scraped_gender(provider, cell) ==
    IF provider = "realtiming.co.il" THEN replace_gender(cell, ZAYIN, NUN)
    ELSE IF provider = "modiin" THEN replace_gender(cell, ZAKHAR, NEKEVA)
    ELSE cell

\* scrape_participants_table: the table of the page, gender mapped
scrape_participants_table(provider, table) ==
    [i \in 1..Len(table) |-> [table[i] EXCEPT !.migdar = scraped_gender(provider, table[i].migdar)]]

\* str.lower of one character of the labels
lower_char(c) == IF c = "K" THEN "k" ELSE c

lower(s) == [i \in 1..Len(s) |-> lower_char(s[i])]

\* Series.str.contains(keyword, case=False) on one label; the keywords of the
\* model hold no regular-expression operator
str_contains(label, keyword) == contains(lower(label), lower(keyword))

\* the list ["5K", "10K", "15K", "21K", "42K"]
standard_categories == {K5.s, K10.s, K15.s, K21.s, K42.s}

\* str(self.normalize_distance(str(x))) == keyword
normalized_equals(label, keyword) == str(normalize_distance(PyStr(label))) = keyword

\* the rows df[col] >= min_year and df[col] <= max_year keep: a year that is
\* None compares False
year_kept(year, min_year, max_year) ==
    /\ min_year # None => (year # None /\ year.n >= min_year.n)
    /\ max_year # None => (year # None /\ year.n <= max_year.n)

\* get_filtered_names_3plus_realtiming: the positions kept, or the exception
get_filtered_names_3plus_realtiming(df, min_year, max_year, gender, race_keyword) ==
    LET years == [i \in 1..Len(df) |-> normalize_year(df[i].shnat_leida)]
    IN IF \E i \in 1..Len(df) : years[i].raised # ""
       THEN [raised |-> years[CHOOSE i \in 1..Len(df) :
                                 years[i].raised # ""
                                 /\ \A j \in 1..(i - 1) : years[j].raised = ""].raised]
       ELSE LET by_year == {i \in 1..Len(df) : year_kept(years[i].value, min_year, max_year)}
                by_gender == IF gender = None THEN by_year
                             ELSE {i \in by_year : df[i].migdar = gender.s}
                direct == {i \in by_gender : str_contains(df[i].miktse, race_keyword.s)}
                by_race == IF race_keyword = None THEN by_gender
                           ELSE IF direct = {} /\ race_keyword.s \in standard_categories
                                THEN {i \in by_gender : normalized_equals(df[i].miktse, race_keyword.s)}
                                ELSE direct
            IN [raised |-> "", kept |-> by_race]

\* get_filtered_names_shvoong: year and gender are not looked at
get_filtered_names_shvoong(df, min_year, max_year, gender, race_keyword) ==
    [raised |-> "",
     kept |-> IF race_keyword = None THEN 1..Len(df)
              ELSE IF race_keyword.s \in standard_categories
                   THEN {i \in 1..Len(df) : normalized_equals(df[i].miktse, race_keyword.s)}
                   ELSE {i \in 1..Len(df) : str_contains(df[i].miktse, race_keyword.s)}]

\* get_filtered_names: the dispatch on the URL; "21" in None raises TypeError
get_filtered_names(provider, df, min_year, max_year, gender, race_keyword) ==
    IF provider \in {"realtiming.co.il", "3plus.co.il", "modiin"}
    THEN get_filtered_names_3plus_realtiming(df, min_year, max_year, gender, race_keyword)
    ELSE IF race_keyword = None THEN [raised |-> "TypeError"]
    ELSE get_filtered_names_shvoong(df, min_year, max_year, gender,
            IF contains(race_keyword.s, <<"2", "1">>) THEN PyStr(L_HALF) ELSE race_keyword)

RECURSIVE ascending(_)
\* the members of a set of positions, in increasing order
ascending(S) ==
    IF S = {} THEN <<>>
    ELSE LET m == CHOOSE m \in S : \A n \in S : m <= n
         IN <<m>> \o ascending(S \ {m})

\* the rows kept are listed last to first
names_of_reversed(df, kept) ==
    LET at == ascending(kept)
    IN [k \in 1..Len(at) |-> [first_name |-> df[at[Len(at) + 1 - k]].shem_prati,
                              last_name |-> df[at[Len(at) + 1 - k]].shem_mishpaha]]

\* list(df[[first, last]].itertuples(index=False, name=None))
names_of(df, kept) ==
    LET at == ascending(kept)
    IN [k \in 1..Len(at) |-> [first_name |-> df[at[k]].shem_prati,
                              last_name |-> df[at[k]].shem_mishpaha]]

(***************************************************************************)
(* Inputs of the filter: the roster page of a provider and the criteria.   *)
(***************************************************************************)
\* birth cells: a year inside and one outside the bounds of MinMaxYears, and a
\* text that is no number
BirthCells == {PyStr(<<"1", "9", "8", "0">>), PyStr(<<"1", "9", "9", "0">>),
               PyStr(<<"a", "b", "c">>)}

GenderCells == {ZAYIN, ZAKHAR, NUN}

RosterLabels == {L_10_KM_Q, L_HALF}

\* the i-th row of a page
PageRow(i, birth, gender, label) ==
    [shem_prati |-> Name(i).first_name, shem_mishpaha |-> Name(i).last_name,
     shnat_leida |-> birth, migdar |-> gender, miktse |-> label]

\* the roster tables of at most MaxRoster rows, each row taking its birth,
\* gender and category cells from cells
PagesOver(cells) ==
    UNION {{[i \in 1..n |-> PageRow(i, c[i][1], c[i][2], c[i][3])] :
                c \in [1..n -> cells]} : n \in 0..MaxRoster}

Pages == PagesOver(BirthCells \X GenderCells \X RosterLabels)

MinMaxYears == {<<None, None>>, <<PyInt(1976), PyInt(1985)>>}

GenderCriteria == {None, PyStr(MALE)}

RaceKeywords == {None, PyStr(<<"1", "0">>), PyStr(<<"2", "1">>), PyStr(K21.s)}

\* the object after __init__, the roster page being one of pages
FilterInitWith(pages) ==
    /\ pc = "scrape"
    /\ url \in Providers
    /\ page \in pages
    /\ participants_table_df = Unset
    /\ criteria = Unset
    /\ kept_rows = Unset
    /\ names_list = Unset
    /\ NormalizeIdle /\ TimeIdle /\ SingleIdle
    /\ WebIdle
    /\ category = Unset /\ looked_up = Unset /\ response = Unset
    /\ best_results = Unset /\ returned = Unset

FilterInit == FilterInitWith(Pages)

filter_others == <<normalize_vars, time_vars, single_vars, web_vars,
                   category, looked_up, response, best_results, returned>>

\* scrape_participants_table
ScrapeParticipantsTable ==
    /\ pc = "scrape"
    /\ participants_table_df' = scrape_participants_table(url, page)
    /\ pc' = "filter"
    /\ UNCHANGED <<url, page, criteria, kept_rows, names_list, filter_others>>

\* get_filtered_names(min_year, max_year, gender, race_keyword)
GetFilteredNames ==
    /\ pc = "filter"
    /\ \E years \in MinMaxYears, gender \in GenderCriteria, race_keyword \in RaceKeywords :
          LET got == get_filtered_names(url, participants_table_df,
                                        years[1], years[2], gender, race_keyword)
          IN /\ criteria' = [min_year |-> years[1], max_year |-> years[2],
                             gender |-> gender, race_keyword |-> race_keyword]
             /\ IF got.raised # ""
                THEN /\ pc' = "filter_raised"
                     /\ kept_rows' = [raised |-> got.raised]
                     /\ UNCHANGED names_list
                ELSE /\ pc' = "filtered"
                     /\ kept_rows' = [raised |-> "", kept |-> got.kept]
                     /\ names_list' = names_of(participants_table_df, got.kept)
    /\ UNCHANGED <<url, page, participants_table_df, filter_others>>

FilterNext == ScrapeParticipantsTable \/ GetFilteredNames

SpecFilter == FilterInit /\ [][FilterNext]_vars

\* roster rows that leave the cells of Pages in one column: category labels
\* that are aliases, or hold "21K" and are none; birth cells that are empty or
\* a date of two components
CellRows ==
    ({PyStr(<<"1", "9", "8", "0">>)} \X {ZAYIN}
        \X {L_10_KM_Q, L_HALF, L_21K, L_21K \o <<" ", "r", "u", "n">>})
    \cup ({PyStr(<<>>), PyStr(<<"1", "5", "/", "0", "3">>)} \X {ZAYIN} \X {L_HALF})

SpecFilterCells == FilterInitWith(PagesOver(CellRows)) /\ [][FilterNext]_vars

(***************************************************************************)
(* normalize_year on its own: value is the raw birth cell, result what the  *)
(* call gives.                                                             *)
(***************************************************************************)
\* a Python float, by its tenths
PyFloat(tenths) == [kind |-> "float", tenths |-> tenths]

\* the date of the 15th of March with the year written as ys
DateOf(ys) == <<"1", "5", "/", "0", "3", "/">> \o ys

\* raw birth values: years written in digits, bare and in a date; numbers;
\* missing values; texts that are no number; dates that lack the year
YearValues ==
    {PyStr(ys) : ys \in SeqsUpTo(Digits, MaxYearDigits)}
    \cup {PyStr(DateOf(ys)) : ys \in SeqsUpTo(Digits, MaxYearDigits)}
    \cup {PyInt(1990), PyInt(90), PyFloat(19900), PyFloat(19905), None, NaN}
    \cup {PyStr(s) : s \in {<<"a", "b", "c">>, <<" ">>, <<"1", "5", "/", "0", "3">>, <<"/">>,
                            DateOf(<<"x">>), DateOf(<<" ", "9", "0", " ">>),
                            <<"1", "9", "9", "0">>, <<" ", "1", "9", "9", "0">>,
                            DateOf(<<"1", "9", "9", "0">>)}}

YearInit ==
    /\ pc = "year"
    /\ value \in YearValues
    /\ result = Unset
    /\ single_result = Unset
    /\ TimeIdle /\ SingleIdle /\ AggIdle /\ WebIdle /\ FilterIdle

\* one call of normalize_year
NormalizeYear ==
    /\ pc = "year"
    /\ result' = normalize_year(value)
    /\ pc' = "year_done"
    /\ UNCHANGED <<value, single_result, time_vars, single_vars, agg_vars, web_vars, filter_vars>>

SpecYear == YearInit /\ [][NormalizeYear]_vars

(***************************************************************************)
(* Claims on the Category Normalizer.                                      *)
(***************************************************************************)
Categories == {K42, K21, K15, K10, K5}

\* the label as the normalizer sees it: str() then strip()
Trimmed(v) == strip(str(v))

\* C1: normalize_distance returns what the ordered first-match procedure of
\* spec 4.1 returns: null or blank -> unknown; else 10K alias -> 10K; else 21K
\* alias -> 21K; else 42K alias -> 42K; else contains "15" -> 15K (even with a
\* "2"); else contains "5" and no "2" -> 5K; else unknown.
C1_NormalizeFollowsOrderedProcedure ==
    pc = "normalized" =>
        LET blank == isna(value) \/ Trimmed(value) = <<>>
            s == Trimmed(value)
            in10 == ~blank /\ s \in Aliases10K
            in21 == ~blank /\ ~in10 /\ s \in Aliases21K
            in42 == ~blank /\ ~in10 /\ ~in21 /\ s \in Aliases42K
            alias == in10 \/ in21 \/ in42
            is15 == ~blank /\ ~alias /\ contains(s, <<"1", "5">>)
            is5 == ~blank /\ ~alias /\ ~is15 /\ contains(s, <<"5">>) /\ ~contains(s, <<"2">>)
        IN /\ blank => result = NaN
           /\ in10 => result = K10
           /\ in21 => result = K21
           /\ in42 => result = K42
           /\ is15 => result = K15
           /\ is5 => result = K5
           /\ (~blank /\ ~alias /\ ~is15 /\ ~is5) => result = NaN

\* a label with "15" and "2" that is no alias has been normalized to 15K
C1_Witness ==
    /\ pc = "normalized"
    /\ value.kind = "str"
    /\ contains(Trimmed(value), <<"1", "5">>)
    /\ contains(Trimmed(value), <<"2">>)
    /\ result = K15

\* C2: both normalizers send every 10K alias to 10K, every 21K alias (meter
\* counts, "21K"/"21k", the Hebrew half-marathon renderings) to 21K and every
\* 42K alias to 42K, so they agree on every alias label.
C2_BothNormalizersMapAliases ==
    (pc = "normalized" /\ ~isna(value)) =>
        /\ Trimmed(value) \in Aliases10K => (result = K10 /\ single_result = K10)
        /\ Trimmed(value) \in Aliases21K => (result = K21 /\ single_result = K21)
        /\ Trimmed(value) \in Aliases42K => (result = K42 /\ single_result = K42)

\* C19: normalize_distance is total: for every text or null input, blank,
\* whitespace-only, Hebrew, mixed-script and numeric ones included, it returns
\* one of 42K, 21K, 15K, 10K, 5K or unknown (NaN).
C19_NormalizeIsTotal ==
    pc = "normalized" => result \in Categories \cup {NaN}

\* a text of blanks only was normalized to unknown
C19_Witness ==
    /\ pc = "normalized"
    /\ value = PyStr(<<" ", " ">>)
    /\ result = NaN

\* C20: for a label that holds both the character "5" and the character "2",
\* neither normalizer returns 5K.
C20_TwoExcludesFive ==
    (pc = "normalized" /\ ~isna(value)
        /\ contains(str(value), <<"5">>) /\ contains(str(value), <<"2">>)) =>
        /\ result # K5
        /\ single_result # K5

\* the label "25" was normalized to unknown by both
C20_Witness ==
    /\ pc = "normalized"
    /\ value = PyStr(<<"2", "5">>)
    /\ result = NaN
    /\ single_result = NaN

(***************************************************************************)
(* Claims on the Time Resolver.                                            *)
(***************************************************************************)
\* the trimmed text of a cell that is present in the row
TrimmedCell(r, col) == strip(str(r[col]))

\* the column holds a time: it is present and its trimmed text is no null time
HoldsTime(r, col) == col \in DOMAIN r /\ TrimmedCell(r, col) \notin NullTimes

\* C3: choose_best_time_string returns the trimmed personal time when that field
\* is present and no null-time sentinel, else the trimmed result field when that
\* is present and no sentinel, else the empty string; it never returns a
\* sentinel other than the empty string.
C3_ChooseBestTimeString ==
    pc = "resolved" =>
        /\ HoldsTime(row, COL_PERSONAL) => best_time = PyStr(TrimmedCell(row, COL_PERSONAL))
        /\ (~HoldsTime(row, COL_PERSONAL) /\ HoldsTime(row, COL_RESULT))
              => best_time = PyStr(TrimmedCell(row, COL_RESULT))
        /\ (~HoldsTime(row, COL_PERSONAL) /\ ~HoldsTime(row, COL_RESULT))
              => best_time = PyStr(<<>>)
        /\ best_time.s \notin (NullTimes \ {<<>>})

\* the personal time is the text "NaT" and the padded result field was returned trimmed
C3_Witness ==
    /\ pc = "resolved"
    /\ COL_PERSONAL \in DOMAIN row /\ COL_RESULT \in DOMAIN row
    /\ TrimmedCell(row, COL_PERSONAL) = <<"N", "a", "T">>
    /\ row[COL_RESULT] = PyStr(<<" ">> \o T_0040 \o <<" ">>)
    /\ best_time = PyStr(T_0040)

(***************************************************************************)
(* Claims on the Per-Participant Best Selector.                            *)
(***************************************************************************)
\* the call was given a table with rows
SingleDone == pc = "single_done" /\ single_response.kind = "table" /\ single_response.rows # <<>>

\* the rows as derived by lines 69-101
SingleFrame == single_frame(single_response.rows)

\* the best rows in the output (none when the call raised)
SingleBest == IF single_returned.raised = "" THEN single_returned.best_rows ELSE <<>>

\* the positions of the output tagged Best Result for the category
BestOf(cat) ==
    {k \in 1..Len(SingleBest) : SingleBest[k].normalized_distance = cat
                                /\ SingleBest[k].heara = BEST_RESULT}

\* the rows of the category with a parseable duration
Timed(cat) ==
    {i \in 1..Len(SingleFrame) : SingleFrame[i].normalized_distance = cat
                                 /\ ~isna(SingleFrame[i].race_time)}

\* C4: for every canonical category that appears among the participant's rows
\* with at least one parseable duration, the output contains exactly one row
\* tagged "Best Result" for it, whose duration is <= the parseable duration of
\* every row of the category; no category has two Best Result rows.
C4_OneBestPerCategory ==
    SingleDone =>
        \A cat \in Categories :
            /\ Cardinality(BestOf(cat)) <= 1
            /\ Timed(cat) # {} =>
                  /\ Cardinality(BestOf(cat)) = 1
                  /\ \A k \in BestOf(cat) : \A i \in Timed(cat) :
                        /\ ~isna(SingleBest[k].race_time)
                        /\ SingleBest[k].race_time.seconds <= SingleFrame[i].race_time.seconds

\* C4 on the calls that return: the property of C4 holds of every output the
\* selector does produce
C4_OneBestPerCategoryWhenReturned ==
    (SingleDone /\ single_returned.raised = "") => C4_OneBestPerCategory

\* both time fields of the scraped row are null-time sentinels
BothNullTimes(r) ==
    strip(str(r[COL_PERSONAL])) \in NullTimes /\ strip(str(r[COL_RESULT])) \in NullTimes

\* C5: in the single-participant path a row whose personal time and result are
\* both null-time sentinels resolves to an unparseable duration and is never
\* selected as Best Result.
C5_SentinelResultIsUnparseable ==
    SingleDone =>
        \A i \in 1..Len(SingleFrame) :
            BothNullTimes(single_response.rows[i]) =>
                /\ isna(SingleFrame[i].race_time)
                /\ \A k \in 1..Len(SingleBest) : SingleBest[k].index # SingleFrame[i].index

\* C5, as the code has it: a row with both fields "00:00:00" is selected ahead of
\* a row of the same category with a real time
C5_SentinelRowSelected ==
    /\ SingleDone
    /\ \E i, j \in 1..Len(SingleFrame), k \in 1..Len(SingleBest) :
          /\ BothNullTimes(single_response.rows[i])
          /\ SingleFrame[j].normalized_distance = SingleFrame[i].normalized_distance
          /\ ~isna(SingleFrame[j].race_time) /\ SingleFrame[j].race_time.seconds > 0
          /\ SingleBest[k].index = SingleFrame[i].index

\* a known category all of whose rows have an unparseable time
AllUnparseable(cat) ==
    /\ \E i \in 1..Len(SingleFrame) : SingleFrame[i].normalized_distance = cat
    /\ Timed(cat) = {}

\* C6 (single-participant path): when every row of some known category has an
\* unparseable time, the selector does not raise and returns a sequence without
\* a Best Result for that category.
C6_SingleTimeMissIsNoError ==
    SingleDone =>
        \A cat \in Categories :
            AllUnparseable(cat) => (single_returned.raised = "" /\ BestOf(cat) = {})

(***************************************************************************)
(* Claims on the Cross-Participant Aggregator.                             *)
(***************************************************************************)
\* the rows of the last answer that are of the target category
TargetRows == of_category(frame(response.rows), category)

\* the last lookup was answered with rows of the target category, none of which
\* has a parseable time
TargetAllUnparseable ==
    /\ pc \in {"agg_loop", "agg_raised", "agg_done"}
    /\ looked_up # <<>>
    /\ response.kind = "table"
    /\ TargetRows # {}
    /\ \A i \in TargetRows : isna(frame(response.rows)[i].race_time)

\* C6 (aggregator): fetch_best_result for a target category all of whose rows
\* have an unparseable time completes without raising.
C6_AggregatorTimeMissIsNoError == TargetAllUnparseable => pc # "agg_raised"

\* C6: a time-parse miss is never an error: with every row of a known category
\* unparseable, the single-participant selector returns a sequence without a
\* Best Result for that category, and the aggregator's fetch_best_result for
\* that target category completes without raising.
C6_TimeMissIsNoError == C6_SingleTimeMissIsNoError /\ C6_AggregatorTimeMissIsNoError

\* the call of best_results_for_category has ended
AggEnded == pc \in {"agg_done", "agg_raised"}

\* the rows of the aggregate (none when the call returned None or raised)
Aggregate ==
    IF pc = "agg_done" /\ returned.value.kind = "DataFrame" THEN returned.value.rows ELSE <<>>

\* the rows of the aggregate that carry the name
RowsNamed(name) ==
    {k \in 1..Len(Aggregate) : /\ Aggregate[k].shem_prati = name.first_name
                               /\ Aggregate[k].shem_mishpaha = name.last_name}

\* C7: a participant whose lookup fails contributes no row, every later
\* participant is still looked up, no exception escapes, and the output holds
\* exactly one row for each participant whose lookup succeeded with a row in
\* the target category.
C7_FailedLookupsAreSkipped ==
    /\ pc # "agg_raised"
    /\ AggEnded =>
          /\ Len(looked_up) = Len(names_list)
          /\ \A k \in 1..Len(looked_up) :
                /\ looked_up[k].name = names_list[k]
                /\ Cardinality(RowsNamed(names_list[k]))
                      = IF looked_up[k].has_target_row THEN 1 ELSE 0
          /\ Len(Aggregate) = Cardinality({k \in 1..Len(looked_up) : looked_up[k].has_target_row})

\* C7 on the calls that return: every participant was looked up and the output
\* holds exactly one row for each one the site had a target row for
C7_FailedLookupsAreSkippedWhenReturned ==
    pc = "agg_done" => 
          /\ Len(looked_up) = Len(names_list)
          /\ \A k \in 1..Len(looked_up) :
                Cardinality(RowsNamed(names_list[k]))
                      = IF looked_up[k].has_target_row THEN 1 ELSE 0

\* a lookup that timed out was followed by one that gave a row, and the call returned
C7_SkippedThenCollected ==
    /\ pc = "agg_done"
    /\ \E k, j \in 1..Len(looked_up) :
          k < j /\ ~looked_up[k].has_target_row /\ looked_up[j].has_target_row
    /\ Len(Aggregate) >= 1

\* C8: the aggregate is sorted ascending by duration; rows without a parseable
\* duration come after all rows with one; the sort is stable: rows of equal
\* duration, and the unparseable rows among themselves, keep collection order.
C8_SortedAscendingAndStable ==
    \A a, b \in 1..Len(Aggregate) : a < b =>
        LET x == Aggregate[a].race_time
            y == Aggregate[b].race_time
        IN /\ isna(x) => isna(y)
           /\ (~isna(x) /\ ~isna(y)) => x.seconds <= y.seconds
           /\ (isna(x) /\ isna(y)) => Aggregate[a].index < Aggregate[b].index
           /\ (~isna(x) /\ ~isna(y) /\ x.seconds = y.seconds)
                 => Aggregate[a].index < Aggregate[b].index

\* C8 without the stability of equal durations: ascending, unparseable last
C8_SortedAscending ==
    \A a, b \in 1..Len(Aggregate) : a < b =>
        LET x == Aggregate[a].race_time
            y == Aggregate[b].race_time
        IN /\ isna(x) => isna(y)
           /\ (~isna(x) /\ ~isna(y)) => x.seconds <= y.seconds

(***************************************************************************)
(* Claims on the web layer.                                                *)
(***************************************************************************)
\* request q has been answered after its aggregation ended as given
Answered(q) == q <= Len(requests) /\ requests[q].at = "responded"

\* C9: when the aggregation of a query collects no row (it returns None), the
\* web layer renders success with 0 rows, neither a fatal error nor rows of an
\* earlier query; every query's rendered outcome is success with its N rows,
\* success with 0 rows, or fatal error, as its own aggregation produced.
C9_RenderedOutcomeMatchesAggregation ==
    pc = "web" =>
        \A q \in 1..Len(requests) :
            (Answered(q) /\ requests[q].aggregated # Unset) =>
                LET agg == requests[q].aggregated
                    shown == requests[q].rendered
                IN /\ agg.raised # "" => shown.kind = "error"
                   /\ (agg.raised = "" /\ agg.value = None)
                         => (shown.kind = "table" /\ shown.rows = <<>>)
                   /\ (agg.raised = "" /\ agg.value # None)
                         => (shown.kind = "table" /\ shown.rows = agg.value.rows)

\* C9, as the code has it: a query whose aggregation collected no row is
\* answered with the rows an earlier query wrote
C9_StaleRowsShown ==
    /\ pc = "web"
    /\ \E q \in 1..Len(requests) :
          /\ Answered(q)
          /\ requests[q].aggregated = [raised |-> "", value |-> None]
          /\ requests[q].rendered.kind = "table"
          /\ requests[q].rendered.written_by # q

\* request q wrote a file that is still in the directory
WroteFile(q) == \E f \in DOMAIN excel_dir : excel_dir[f].written_by = q

\* C23: whatever the interleaving of the requests to index, the table and the
\* download link rendered for a request are those of the file that request's
\* own best_results_for_category call wrote, never of a file of another
\* request: an earlier one, a concurrent one, or one for a race whose name
\* holds this race name.
C23_RenderedFileIsOwn ==
    pc = "web" =>
        \A q \in 1..Len(requests) :
            (Answered(q) /\ requests[q].rendered.kind = "table") =>
                /\ requests[q].rendered.written_by = q
                /\ requests[q].rendered.rows = requests[q].aggregated.value.rows
                /\ requests[q].rendered.download_link \in DOMAIN excel_dir
                /\ contains(requests[q].rendered.download_link,
                            requests[q].category.s \o age_suffix)

\* C23, as the code has it: a request whose call wrote a file, still in the
\* directory, is answered with the file of another request
C23_OtherRunShown ==
    /\ pc = "web"
    /\ \E q \in 1..Len(requests) :
          /\ Answered(q) /\ requests[q].rendered.kind = "table"
          /\ requests[q].aggregated.value # None
          /\ WroteFile(q)
          /\ requests[q].rendered.written_by # q

\* C23, as the code has it: the request for race "p" is answered with the file
\* of the request for race "pq" written in the same second as its own
C23_LongerRaceNameShown ==
    /\ pc = "web"
    /\ \E q, o \in 1..Len(requests) :
          /\ Answered(q) /\ Answered(o)
          /\ requests[q].race_name = <<"p">> /\ requests[o].race_name = <<"p", "q">>
          /\ requests[q].category = requests[o].category
          /\ WroteFile(q)
          /\ requests[q].rendered.kind = "table"
          /\ requests[q].rendered.written_by = o
          /\ requests[o].rendered.kind = "table"
          /\ requests[o].rendered.written_by = o
          /\ \A f \in DOMAIN excel_dir : Head(f) = Digit(0)

\* the place of a category in the presentation priority 42K, 21K, 15K, 10K, 5K
Priority(cat) ==
    CASE cat = K42 -> 1 [] cat = K21 -> 2 [] cat = K15 -> 3 [] cat = K10 -> 4 [] cat = K5 -> 5

\* C17: the best rows fetch_and_process_results returns are in the order 42K,
\* 21K, 15K, 10K, 5K of their categories, whatever the order of the categories
\* in the table and whatever the times.
C17_PresentationOrder ==
    (SingleDone /\ single_returned.raised = "") =>
        \A k, l \in 1..Len(SingleBest) :
            k < l => Priority(SingleBest[k].normalized_distance)
                        < Priority(SingleBest[l].normalized_distance)

\* best rows of 42K, 10K and 5K were returned from a table that has the 5K row
\* first and the 42K row last
C17_Witness ==
    /\ SingleDone /\ single_returned.raised = ""
    /\ Len(SingleBest) = 3
    /\ SingleBest[1].normalized_distance = K42 /\ SingleBest[1].index = 2
    /\ SingleBest[2].normalized_distance = K10 /\ SingleBest[2].index = 1
    /\ SingleBest[3].normalized_distance = K5 /\ SingleBest[3].index = 0

\* the positions of the table whose label normalizes to unknown
UnknownRows == {i \in 1..Len(SingleFrame) : isna(SingleFrame[i].normalized_distance)}

FirstOfLeast(b, df) ==
    \A i \in 1..Len(df) :
        (df[i].normalized_distance = b.normalized_distance /\ ~isna(df[i].race_time)) =>
            /\ df[i].index < b.index => df[i].race_time.seconds > b.race_time.seconds
            /\ df[i].index > b.index => df[i].race_time.seconds >= b.race_time.seconds

\* a row of df after b, with other cells than b, has the category and the time of b
TiedLater(b, df) ==
    \E i \in 1..Len(df) :
        /\ df[i].index > b.index
        /\ df[i].normalized_distance = b.normalized_distance
        /\ df[i].race_time = b.race_time
        /\ df[i].zman_ishi # b.zman_ishi

\* the last lookup of the aggregator gave a best row
LookupCollected ==
    /\ pc \in {"agg_loop", "agg_done"}
    /\ looked_up # <<>>
    /\ looked_up[Len(looked_up)].has_target_row

\* C21: of the rows of one category that share the least time, the row selected
\* as best result is the one that comes first in the table, in
\* fetch_and_process_results and in fetch_best_result alike.
C21_FirstOfTiedRowsIsSelected ==
    /\ (SingleDone /\ single_returned.raised = "") =>
           \A k \in 1..Len(SingleBest) : FirstOfLeast(SingleBest[k], SingleFrame)
    /\ LookupCollected =>
           FirstOfLeast(best_results[Len(best_results)], frame(response.rows))

\* fetch_and_process_results selected a row that a later row with other cells
\* ties with
C21_Witness ==
    /\ SingleDone /\ single_returned.raised = ""
    /\ \E k \in 1..Len(SingleBest) : TiedLater(SingleBest[k], SingleFrame)

\* fetch_best_result selected the first of two rows of the same time
C21_AggregatorTie ==
    /\ LookupCollected
    /\ LET b == best_results[Len(best_results)]
           df == frame(response.rows)
       IN \E i \in 1..Len(df) :
              /\ df[i].index > b.index
              /\ df[i].normalized_distance = b.normalized_distance
              /\ df[i].race_time = b.race_time

\* row a of the aggregate is the collected row b: the same cells, time, names
\* and marker (the index is renumbered by reset_index)
SameResult(a, b) ==
    /\ a.miktse = b.miktse /\ a.zman_ishi = b.zman_ishi /\ a.totsaa = b.totsaa
    /\ a.normalized_distance = b.normalized_distance
    /\ a.totsaa_meitavit = b.totsaa_meitavit /\ a.race_time = b.race_time
    /\ a.shem_prati = b.shem_prati /\ a.shem_mishpaha = b.shem_mishpaha
    /\ a.heara = b.heara

\* the collected row b is the row of the participant `name`: of the target
\* category, with the names of the participant and the marker
RowOf(b, name) ==
    /\ b.normalized_distance = category
    /\ b.shem_prati = name.first_name /\ b.shem_mishpaha = name.last_name
    /\ b.heara = BEST_RESULT

\* b has a time, the least of the times of the rows of the target category in df
LeastOfTarget(b, df) ==
    /\ ~isna(b.race_time)
    /\ \E i \in 1..Len(df) :
           /\ df[i].index = b.index /\ df[i].normalized_distance = category
           /\ df[i].race_time = b.race_time
    /\ \A i \in 1..Len(df) :
           (df[i].normalized_distance = category /\ ~isna(df[i].race_time)) =>
               b.race_time.seconds <= df[i].race_time.seconds

\* C22: every row of the aggregate of best_results_for_category is of the
\* target category, carries the names of the participant it was looked up for
\* and the marker "Best Result", and has the least parseable time among the
\* rows of the target category the site gave for that participant; the
\* aggregate has at most one row for each entry of the names list.
C22_AggregateRows ==
    /\ pc \in {"agg_loop", "agg_done", "agg_raised"} =>
          \* the rows collected so far: one for each of some participants looked
          \* up, in the order of the list
          /\ Len(best_results) <= Len(looked_up)
          /\ \E at \in [1..Len(best_results) -> 1..Len(looked_up)] :
                /\ \A k, l \in 1..Len(best_results) : k < l => at[k] < at[l]
                /\ \A k \in 1..Len(best_results) :
                      /\ looked_up[at[k]].name = names_list[at[k]]
                      /\ RowOf(best_results[k], names_list[at[k]])
    /\ LookupCollected =>
          \* the row of the last lookup
          /\ RowOf(best_results[Len(best_results)], names_list[Len(looked_up)])
          /\ LeastOfTarget(best_results[Len(best_results)], frame(response.rows))
    /\ pc = "agg_done" =>
          \* the aggregate holds the collected rows, each once
          /\ Len(Aggregate) = Len(best_results)
          /\ Len(Aggregate) <= Len(names_list)
          /\ \A k \in 1..Len(names_list) : Cardinality(RowsNamed(names_list[k])) <= 1
          /\ \A j \in 1..Len(best_results) :
                \E k \in 1..Len(Aggregate) : SameResult(Aggregate[k], best_results[j])
          /\ \A k \in 1..Len(Aggregate) :
                /\ Aggregate[k].normalized_distance = category
                /\ Aggregate[k].heara = BEST_RESULT
                /\ ~isna(Aggregate[k].race_time)
                /\ \E j \in 1..Len(names_list) :
                      /\ Aggregate[k].shem_prati = names_list[j].first_name
                      /\ Aggregate[k].shem_mishpaha = names_list[j].last_name

\* an aggregate of two rows was returned, and the last participant's row is the
\* second of two rows of the target category, the first of which is slower
C22_Witness ==
    /\ pc = "agg_done" /\ Len(Aggregate) = 2
    /\ LookupCollected
    /\ LET b == best_results[Len(best_results)]
           df == frame(response.rows)
       IN /\ b.index = 1
          /\ df[1].normalized_distance = category
          /\ ~isna(df[1].race_time)
          /\ df[1].race_time.seconds > b.race_time.seconds

(***************************************************************************)
(* Claims on the Participant Filter.                                       *)
(***************************************************************************)
\* the birth year derived for row i of the scraped roster (None when unknown)
DerivedYear(i) ==
    LET year == normalize_year(participants_table_df[i].shnat_leida)
    IN IF year.raised = "" THEN year.value ELSE None

\* row i satisfies the category criterion: its label holds the keyword, or the
\* keyword is a canonical category and the label normalizes to it
SatisfiesCategory(i, keyword) ==
    \/ str_contains(participants_table_df[i].miktse, keyword.s)
    \/ /\ keyword.s \in standard_categories
       /\ normalized_equals(participants_table_df[i].miktse, keyword.s)

\* C10: on every provider, a roster row is returned by get_filtered_names only
\* if its derived birth year lies within [min_year, max_year] (when given) and
\* its gender equals the gender criterion (when given) and it satisfies the
\* category criterion (when given).
C10_ReturnedRowsSatisfyCriteria ==
    pc = "filtered" =>
        \A i \in kept_rows.kept :
            /\ criteria.min_year # None =>
                  (DerivedYear(i) # None /\ DerivedYear(i).n >= criteria.min_year.n)
            /\ criteria.max_year # None =>
                  (DerivedYear(i) # None /\ DerivedYear(i).n <= criteria.max_year.n)
            /\ criteria.gender # None => participants_table_df[i].migdar = criteria.gender.s
            /\ criteria.race_keyword # None => SatisfiesCategory(i, criteria.race_keyword)

\* C10 on the providers other than shvoong
C10_ReturnedRowsSatisfyCriteriaButShvoong ==
    url # "shvoong" => C10_ReturnedRowsSatisfyCriteria

\* C10, as the code has it: on shvoong a row born outside the bounds is returned
C10_ShvoongReturnsOutOfBounds ==
    /\ pc = "filtered"
    /\ url = "shvoong"
    /\ criteria.max_year # None
    /\ \E i \in kept_rows.kept : DerivedYear(i) # None /\ DerivedYear(i).n > criteria.max_year.n

\* the rows the category criterion alone retains, as specified: by canonical
\* match when the keyword is a canonical category, by containment otherwise
CategoryCriterionRows(keyword) ==
    {i \in 1..Len(participants_table_df) :
        IF keyword.s \in standard_categories
        THEN normalized_equals(participants_table_df[i].miktse, keyword.s)
        ELSE str_contains(participants_table_df[i].miktse, keyword.s)}

\* get_filtered_names returned, called with a category criterion only
CategoryOnly ==
    /\ pc = "filtered"
    /\ criteria.race_keyword # None
    /\ criteria.min_year = None /\ criteria.max_year = None /\ criteria.gender = None

\* C11: with a canonical category as filter value a roster row is retained
\* exactly when its label normalizes to that category; with any other filter
\* value it is retained exactly when its label holds the value, case ignored;
\* on every provider, shvoong with a keyword holding "21" included.
C11_CategoryCriterion ==
    CategoryOnly => kept_rows.kept = CategoryCriterionRows(criteria.race_keyword)

\* C11 with shvoong left out: the containment is tried first there, and the
\* canonical match only when no row holds the keyword
C11_CategoryCriterionButShvoong ==
    url # "shvoong" => C11_CategoryCriterion

\* C11, as the code has it on realtiming, 3plus and modiin: the rows holding the
\* keyword when there is one, else the canonical matches of a canonical keyword
C11_ContainmentFirst ==
    (CategoryOnly /\ url # "shvoong") =>
        LET df == participants_table_df
            keyword == criteria.race_keyword.s
            direct == {i \in 1..Len(df) : str_contains(df[i].miktse, keyword)}
        IN kept_rows.kept =
              IF direct = {} /\ keyword \in standard_categories
              THEN {i \in 1..Len(df) : normalized_equals(df[i].miktse, keyword)}
              ELSE direct

\* a row whose label normalizes to the canonical keyword is dropped because
\* another row holds the keyword
C11_CanonicalMatchDropped ==
    /\ CategoryOnly /\ url # "shvoong"
    /\ criteria.race_keyword.s \in standard_categories
    /\ \E i \in 1..Len(participants_table_df) :
          /\ i \notin kept_rows.kept
          /\ normalized_equals(participants_table_df[i].miktse, criteria.race_keyword.s)

\* the rows that satisfy the criteria given, a criterion that is None being no
\* constraint
RowsSatisfying(c) ==
    {i \in 1..Len(participants_table_df) :
        /\ year_kept(DerivedYear(i), c.min_year, c.max_year)
        /\ c.gender # None => participants_table_df[i].migdar = c.gender.s
        /\ c.race_keyword # None => i \in CategoryCriterionRows(c.race_keyword)}

\* get_filtered_names ended, by a return or by an exception
FilterEnded == pc \in {"filtered", "filter_raised"}

\* C12: get_filtered_names with any of min_year, max_year, gender, race_keyword
\* None, on any provider, never raises and returns exactly the rows that
\* satisfy the criteria given; with all four None it returns every row.
C12_OmittedCriterionIsNoConstraint ==
    FilterEnded =>
        /\ pc = "filtered"
        /\ kept_rows.kept = RowsSatisfying(criteria)

\* C12 on the providers other than shvoong
C12_OmittedCriterionIsNoConstraintButShvoong ==
    url # "shvoong" => C12_OmittedCriterionIsNoConstraint

\* on shvoong the call without a category criterion raises
C12_ShvoongRaisesWithoutKeyword ==
    /\ pc = "filter_raised"
    /\ url = "shvoong"
    /\ criteria.min_year = None /\ criteria.max_year = None
    /\ criteria.gender = None /\ criteria.race_keyword = None
    /\ kept_rows.raised = "TypeError"

(***************************************************************************)
(* Claims on normalize_year.                                               *)
(***************************************************************************)
\* the raw value is a date whose third component is written in digits
IsDateWithYear(v) ==
    /\ v.kind = "str"
    /\ Len(v.s) > 6
    /\ SubSeq(v.s, 1, 6) = DateOf(<<>>)
    /\ IsDigits(SubSeq(v.s, 7, Len(v.s)))

\* the year component of such a date, as a number
YearComponent(v) == int(SubSeq(v.s, 7, Len(v.s)))

\* normalize_year returned the year n
ReturnedYear(n) == result = [raised |-> "", value |-> PyInt(n)]

\* C13: on a slash-delimited date normalize_year takes the third component as
\* the year; a two-digit year yy becomes 1900+yy when yy > 25 and 2000+yy when
\* yy <= 25; a component of 100 or more is returned unchanged; a number or a
\* year written in plain digits is returned as that integer.
C13_NormalizeYear ==
    pc = "year_done" =>
        /\ IsDateWithYear(value) =>
              LET yy == YearComponent(value)
              IN IF yy >= 100 THEN ReturnedYear(yy)
                 ELSE IF yy > 25 THEN ReturnedYear(1900 + yy)
                 ELSE ReturnedYear(2000 + yy)
        /\ value.kind = "int" => ReturnedYear(value.n)
        /\ value.kind = "float" => ReturnedYear(value.tenths \div 10)
        /\ (value.kind = "str" /\ IsDigits(value.s)) => ReturnedYear(int(value.s))

\* the dates of the years 25 and 26 were normalized
C13_Witness ==
    /\ pc = "year_done"
    /\ \/ value = PyStr(DateOf(<<"2", "6">>)) /\ ReturnedYear(1926)
       \/ value = PyStr(DateOf(<<"2", "5">>)) /\ ReturnedYear(2025)

\* the raw birth value is unparseable: missing, a text that is no number, a
\* date of fewer than three components or with a third that is no number
Unparseable(v) ==
    \/ isna(v)
    \/ /\ v.kind = "str"
       /\ IF contains(v.s, <<"/">>)
          THEN \/ Len(split(v.s, "/")) < 3
               \/ ~is_int_text(split(v.s, "/")[3])
          ELSE ~is_int_text(v.s)

\* C14: normalize_year never raises, and gives the unknown year (None) for
\* every unparseable raw birth value.
C14_NormalizeYearNeverFails ==
    pc = "year_done" =>
        /\ result.raised = ""
        /\ Unparseable(value) => result.value = None

\* C14 for the values without a slash, which the code does map to None
C14_PlainValuesNeverFail ==
    (pc = "year_done" /\ ~(value.kind = "str" /\ contains(value.s, <<"/">>))) =>
        /\ result.raised = ""
        /\ Unparseable(value) => result.value = None

\* C14, second half: where get_filtered_names returns, a row of unknown year
\* is not returned when min_year or max_year is given (shvoong left out)
C14_UnknownYearExcludedButShvoong ==
    (pc = "filtered" /\ url # "shvoong"
        /\ (criteria.min_year # None \/ criteria.max_year # None)) =>
        \A i \in kept_rows.kept : DerivedYear(i) # None

\* a date of two components in the roster makes get_filtered_names raise
C14_FilterRaisesOnShortDate ==
    /\ pc = "filter_raised"
    /\ kept_rows.raised = "IndexError"
    /\ \E i \in 1..Len(participants_table_df) :
          participants_table_df[i].shnat_leida = PyStr(<<"1", "5", "/", "0", "3">>)

\* the tokens a provider's rosters write for male and for female: the letters
\* on realtiming and 3plus, the words on modiin
NativeMale(provider) == IF provider = "modiin" THEN ZAKHAR ELSE ZAYIN

NativeFemale(provider) == IF provider = "modiin" THEN NEKEVA ELSE NUN

\* get_filtered_names returned, called with gender "male" as only criterion
MaleOnly ==
    /\ pc = "filtered"
    /\ criteria.gender = PyStr(MALE)
    /\ criteria.min_year = None /\ criteria.max_year = None /\ criteria.race_keyword = None

\* C15: on realtiming, modiin and 3plus alike the native gender token of every
\* roster row is mapped to male or female before the comparison, so gender
\* "male" retains the rows whose native token denotes male; a row whose token
\* has no mapping is not retained.
C15_GenderCanonicalized ==
    (MaleOnly /\ url # "shvoong") =>
        \A i \in 1..Len(page) :
            /\ page[i].migdar = NativeMale(url) =>
                  (participants_table_df[i].migdar = MALE /\ i \in kept_rows.kept)
            /\ page[i].migdar = NativeFemale(url) => participants_table_df[i].migdar = FEMALE
            /\ page[i].migdar \notin {NativeMale(url), NativeFemale(url)} => i \notin kept_rows.kept

\* C15 on realtiming and modiin, whose scrapers map the tokens
C15_GenderCanonicalizedWhereMapped ==
    url # "3plus.co.il" => C15_GenderCanonicalized

\* on 3plus a row of a man is left out by gender "male"
C15_ThreePlusManLeftOut ==
    /\ MaleOnly /\ url = "3plus.co.il"
    /\ \E i \in 1..Len(page) : page[i].migdar = ZAYIN /\ i \notin kept_rows.kept

\* the (given name, family name) pair of row i of the roster
RosterPair(i) == [first_name |-> page[i].shem_prati, last_name |-> page[i].shem_mishpaha]

\* C16: the list get_filtered_names returns is a subsequence of the roster in
\* roster order: its pairs are those of roster rows at strictly increasing
\* positions, so no row is moved, none is repeated, no pair is foreign.
C16_OrderPreserving ==
    pc = "filtered" =>
        \E at \in [1..Len(names_list) -> 1..Len(page)] :
            /\ \A k, l \in 1..Len(names_list) : k < l => at[k] < at[l]
            /\ \A k \in 1..Len(names_list) : names_list[k] = RosterPair(at[k])

\* two rows were returned, or one of two
C16_Witness ==
    /\ pc = "filtered"
    /\ Len(page) = MaxRoster
    /\ Len(names_list) >= MaxRoster - 1
    /\ Len(names_list) >= 1

====
